---- MODULE Spec2Model ----
(***************************************************************************)
(* A model of the doubly linked list of llist.c / llist.h.                 *)
(*                                                                         *)
(* The heap is explicit.  A node malloc'ed by lnode_new and linked into    *)
(* the list gets an address of 1..MaxAlloc that is never handed out again, *)
(* and the payload buffer malloc'ed for node a is buffer a of a separate   *)
(* buffer heap.  A node or buffer is "unalloc" (not handed out), "live" or *)
(* "freed"; a freed one stays freed, so that a pointer left dangling on it *)
(* is seen.  Following a pointer to a node that is not live, or freeing a  *)
(* buffer that is not live, is undefined behaviour in C: the model records *)
(* it in the flag fault and makes no further call.                         *)
(*                                                                         *)
(* The C functions are operators from the struct and the heap (a record S) *)
(* to the struct and the heap after the call and the value returned.  The  *)
(* properties are stated on these results, at every reachable state.       *)
(***************************************************************************)
EXTENDS Integers, Sequences, FiniteSets, TLC

\* ---------------------------------------------------------------- bounds
\* Number of node allocations a behaviour may make (fresh addresses).
MaxAlloc == 4

\* ------------------------------------------------------------- constants
NULL == 0
LLIST_OK == 0
LLIST_NULL_ERR == 1
LLIST_ALLOC_ERR == 2

\* Result of a walk that dereferenced a pointer to no live node.
FAULT == -1

Addr == 1..MaxAlloc
Ptr == Addr \cup {NULL}
\* Indexes callers pass: in range, the length itself, and past the length.
Index == 0..MaxAlloc
\* The caller's memory: the buffers a data pointer d may point to (d is an
\* index of this table, or NULL).
CallerMem == << <<7, 8>> >>
\* The address of the caller's llist_t.
LP == 1
\* What malloc may do inside one lnode_new call.
MallocOutcome == {"ok", "nonode", "nodata"}

VARIABLES
    head,     \* l->head
    tail,     \* l->tail
    len,      \* l->len
    nodes,    \* the node heap: address -> lnode_t and its allocation state
    bufs,     \* the payload heap: address -> bytes and allocation state
    inited,   \* llist_init has run on the struct
    fault,    \* an operation ran into undefined behaviour
    hist      \* history: the payloads added since the first llist_init,
              \* while llist_add and llist_get were the only calls since

vars == <<head, tail, len, nodes, bufs, inited, fault, hist>>

\* The list struct and the heap as one value, as the C functions see it.
Cur == [head |-> head, tail |-> tail, len |-> len, nodes |-> nodes,
        bufs |-> bufs, fault |-> fault]

NoNode == [st |-> "unalloc", data |-> NULL, prev |-> NULL, next |-> NULL]
NoBuf == [st |-> "unalloc", bytes |-> <<>>]

Live(S, p) == p \in Addr /\ S.nodes[p].st = "live"

Fault(S) == [S EXCEPT !.fault = TRUE]

\* The address the next successful malloc of a node returns.
FreshAddr(S) == Cardinality({a \in Addr : S.nodes[a].st # "unalloc"}) + 1

\* ------------------------------------------------------------ llist.c
llist_empty(S, lp) == lp = NULL \/ S.len = 0

\* lnode_new copying the caller's whole buffer instead of n bytes.
lnode_new_copy_all(S, d, n, m) ==
    LET a == FreshAddr(S) IN
    IF m = "nonode" \/ a \notin Addr
    THEN [S |-> S, node |-> NULL]
    ELSE IF m = "nodata"
    THEN LET S1 == [S EXCEPT !.nodes[a] = [NoNode EXCEPT !.st = "live"]]
         IN [S |-> [S1 EXCEPT !.nodes[a] = NoNode], node |-> NULL]
    ELSE [S |-> [S EXCEPT !.nodes[a] = [st |-> "live", data |-> a,
                                        prev |-> NULL, next |-> NULL],
                          !.bufs[a] = [st |-> "live", bytes |-> CallerMem[d]]],
          node |-> a]

\* lnode_new forgetting free(ret) when the payload's malloc fails.
lnode_new_leaks_node(S, d, n, m) ==
    LET a == FreshAddr(S) IN
    IF m = "nonode" \/ a \notin Addr
    THEN [S |-> S, node |-> NULL]
    ELSE IF m = "nodata"
    THEN [S |-> [S EXCEPT !.nodes[a] = [NoNode EXCEPT !.st = "live"]],
          node |-> NULL]
    ELSE [S |-> [S EXCEPT !.nodes[a] = [st |-> "live", data |-> a,
                                        prev |-> NULL, next |-> NULL],
                          !.bufs[a] = [st |-> "live", bytes |-> SubSeq(CallerMem[d], 1, n)]],
          node |-> a]

\* m is malloc's behaviour in this call: both mallocs succeed, the node's
\* malloc fails, or the payload's malloc fails.  In the last case the node
\* is freed before any pointer to it is stored anywhere, so no pointer can
\* dangle on it and its address is handed out again by a later malloc.
lnode_new(S, d, n, m) ==
    LET a == FreshAddr(S) IN
    IF m = "nonode" \/ a \notin Addr
    THEN [S |-> S, node |-> NULL]
    ELSE IF m = "nodata"
    THEN LET S1 == [S EXCEPT !.nodes[a] = [NoNode EXCEPT !.st = "live"]]
         IN [S |-> [S1 EXCEPT !.nodes[a] = NoNode], node |-> NULL]
    ELSE [S |-> [S EXCEPT !.nodes[a] = [st |-> "live", data |-> a,
                                        prev |-> NULL, next |-> NULL],
                          !.bufs[a] = [st |-> "live", bytes |-> SubSeq(CallerMem[d], 1, n)]],
          node |-> a]

RECURSIVE WalkPrev(_, _, _)
WalkPrev(S, p, k) ==
    IF k = 0 THEN p
    ELSE IF ~Live(S, p) THEN FAULT
    ELSE WalkPrev(S, S.nodes[p].prev, k - 1)

RECURSIVE WalkNext(_, _, _)
WalkNext(S, p, k) ==
    IF k = 0 THEN p
    ELSE IF ~Live(S, p) THEN FAULT
    ELSE WalkNext(S, S.nodes[p].next, k - 1)

\* lnode_get treating an index past the end as an error instead of clamping.
lnode_get_no_clamp(S, lp, i) ==
    IF llist_empty(S, lp) \/ i >= S.len THEN NULL
    ELSE IF i >= S.len \div 2
         THEN WalkPrev(S, S.tail, S.len - i - 1)
         ELSE WalkNext(S, S.head, i)

\* lnode_get_index clamping to the length instead of the last index.
lnode_get_index_clamps_to_len(S, i) == IF i >= S.len THEN S.len ELSE i

\* Line 217 of lnode_get: an index past the end becomes the last index.
lnode_get_index(S, i) == IF i >= S.len THEN S.len - 1 ELSE i

\* lnode_get_backward never choosing the walk from the tail.
lnode_get_always_forward(S, ci) == FALSE

\* Line 218 of lnode_get: the node is in the upper half, walk from the tail.
lnode_get_backward(S, ci) == ci >= S.len \div 2

\* lnode_get_steps walking one link too many from the tail.
lnode_get_steps_one_more(S, ci) ==
    IF lnode_get_backward(S, ci) THEN S.len - ci ELSE ci

\* Lines 220 and 224 of lnode_get: the number of links its loop follows.
lnode_get_steps(S, ci) ==
    IF lnode_get_backward(S, ci) THEN S.len - ci - 1 ELSE ci

lnode_get(S, lp, i) ==
    IF llist_empty(S, lp) THEN NULL
    ELSE LET ci == lnode_get_index(S, i) IN
         IF lnode_get_backward(S, ci)
         THEN WalkPrev(S, S.tail, lnode_get_steps(S, ci))
         ELSE WalkNext(S, S.head, lnode_get_steps(S, ci))

\* lnode_free_whole forgetting free(n->data).
lnode_free_whole_keeps_data(S, n) ==
    IF n = NULL THEN S
    ELSE IF ~Live(S, n) THEN Fault(S)
    ELSE [S EXCEPT !.nodes[n] = [NoNode EXCEPT !.st = "freed"]]

lnode_free_whole(S, n) ==
    IF n = NULL THEN S
    ELSE IF ~Live(S, n) THEN Fault(S)
    ELSE LET b == S.nodes[n].data
             S1 == IF b = NULL THEN S
                   ELSE IF S.bufs[b].st # "live" THEN Fault(S)
                   ELSE [S EXCEPT !.bufs[b] = [NoBuf EXCEPT !.st = "freed"]]
         IN [S1 EXCEPT !.nodes[n] = [NoNode EXCEPT !.st = "freed"]]

\* lnode_free without its n != NULL test.
lnode_free_no_null_test(S, n) ==
    IF ~Live(S, n) THEN [S |-> Fault(S), ret |-> NULL]
    ELSE [S |-> [S EXCEPT !.nodes[n] = [NoNode EXCEPT !.st = "freed"]],
          ret |-> S.nodes[n].data]

lnode_free(S, n) ==
    IF n = NULL THEN [S |-> S, ret |-> NULL]
    ELSE IF ~Live(S, n) THEN [S |-> Fault(S), ret |-> NULL]
    ELSE [S |-> [S EXCEPT !.nodes[n] = [NoNode EXCEPT !.st = "freed"]],
          ret |-> S.nodes[n].data]

\* llist_init releasing the head node before it overwrites the fields.
llist_init_frees_head(S, lp) ==
    IF lp = NULL THEN [S |-> S, ret |-> LLIST_NULL_ERR]
    ELSE LET S1 == lnode_free_whole(S, S.head) IN
         [S |-> [S1 EXCEPT !.head = NULL, !.tail = NULL, !.len = 0],
          ret |-> LLIST_OK]

\* llist_init forgetting l->tail = NULL.
llist_init_keeps_tail(S, lp) ==
    IF lp = NULL THEN [S |-> S, ret |-> LLIST_NULL_ERR]
    ELSE [S |-> [S EXCEPT !.head = NULL, !.len = 0],
          ret |-> LLIST_OK]

llist_init(S, lp) ==
    IF lp = NULL THEN [S |-> S, ret |-> LLIST_NULL_ERR]
    ELSE [S |-> [S EXCEPT !.head = NULL, !.tail = NULL, !.len = 0],
          ret |-> LLIST_OK]

llist_get(S, lp, i) ==
    LET node == lnode_get(S, lp, i) IN
    IF node = FAULT THEN [S |-> Fault(S), ret |-> NULL]
    ELSE IF node # NULL
    THEN IF Live(S, node) THEN [S |-> S, ret |-> S.nodes[node].data]
         ELSE [S |-> Fault(S), ret |-> NULL]
    ELSE [S |-> S, ret |-> NULL]

\* add_link forgetting l->len++.
add_link_no_count(S, add) ==
    IF S.len = 0
    THEN [S EXCEPT !.head = add, !.tail = add]
    ELSE IF ~Live(S, S.tail) THEN Fault(S)
    ELSE LET S1 == [S EXCEPT !.nodes[S.tail].next = add]
             S2 == [S1 EXCEPT !.nodes[add].prev = S1.tail]
         IN [S2 EXCEPT !.tail = S2.nodes[S2.tail].next]

\* Lines 69-77 of llist_add: link the new node after the tail.
add_link(S, add) ==
    IF S.len = 0
    THEN [S EXCEPT !.head = add, !.tail = add, !.len = @ + 1]
    ELSE IF ~Live(S, S.tail) THEN Fault(S)
    ELSE LET S1 == [S EXCEPT !.nodes[S.tail].next = add]
             S2 == [S1 EXCEPT !.nodes[add].prev = S1.tail]
             S3 == [S2 EXCEPT !.tail = S2.nodes[S2.tail].next]
         IN [S3 EXCEPT !.len = @ + 1]

\* llist_add without its n == 0 test.
llist_add_accepts_zero_length(S, lp, d, n, m) ==
    IF lp = NULL \/ d = NULL THEN [S |-> S, ret |-> LLIST_NULL_ERR]
    ELSE LET new == lnode_new(S, d, n, m) IN
         IF new.node = NULL THEN [S |-> new.S, ret |-> LLIST_ALLOC_ERR]
         ELSE [S |-> add_link(new.S, new.node), ret |-> LLIST_OK]

llist_add(S, lp, d, n, m) ==
    IF lp = NULL \/ d = NULL \/ n = 0 THEN [S |-> S, ret |-> LLIST_NULL_ERR]
    ELSE LET new == lnode_new(S, d, n, m) IN
         IF new.node = NULL THEN [S |-> new.S, ret |-> LLIST_ALLOC_ERR]
         ELSE [S |-> add_link(new.S, new.node), ret |-> LLIST_OK]

\* ins_head forgetting l->head = l->head->prev.
ins_head_keeps_head(S, ins) ==
    IF ~Live(S, S.head) THEN Fault(S)
    ELSE LET S1 == [S EXCEPT !.nodes[S.head].prev = ins]
             S2 == [S1 EXCEPT !.nodes[ins].next = S1.head]
         IN [S2 EXCEPT !.len = @ + 1]

\* Lines 104-106 of llist_ins: the new node becomes the head.
ins_head(S, ins) ==
    IF ~Live(S, S.head) THEN Fault(S)
    ELSE LET S1 == [S EXCEPT !.nodes[S.head].prev = ins]
             S2 == [S1 EXCEPT !.nodes[ins].next = S1.head]
             S3 == [S2 EXCEPT !.head = S2.nodes[S2.head].prev]
         IN [S3 EXCEPT !.len = @ + 1]

\* ins_mid forgetting aft->prev = ins.
ins_mid_no_back_link(S, lp, ins, i) ==
    LET bef == lnode_get(S, lp, i - 1) IN
    IF ~Live(S, bef) THEN Fault(S)
    ELSE LET aft == S.nodes[bef].next
             S1 == [S EXCEPT !.nodes[bef].next = ins]
             S2 == [S1 EXCEPT !.nodes[ins].prev = bef]
             S4 == [S2 EXCEPT !.nodes[ins].next = aft]
         IN [S4 EXCEPT !.len = @ + 1]

\* Lines 108-113 of llist_ins: splice the new node before the node at i.
ins_mid(S, lp, ins, i) ==
    LET bef == lnode_get(S, lp, i - 1) IN
    IF ~Live(S, bef) THEN Fault(S)
    ELSE LET aft == S.nodes[bef].next
             S1 == [S EXCEPT !.nodes[bef].next = ins]
             S2 == [S1 EXCEPT !.nodes[ins].prev = bef]
         IN IF ~Live(S2, aft) THEN Fault(S2)
            ELSE LET S3 == [S2 EXCEPT !.nodes[aft].prev = ins]
                     S4 == [S3 EXCEPT !.nodes[ins].next = aft]
                 IN [S4 EXCEPT !.len = @ + 1]

\* llist_ins handing only indexes beyond the length to llist_add (i > len).
llist_ins_off_by_one(S, lp, d, n, i, m) ==
    IF lp = NULL \/ d = NULL \/ n = 0 THEN [S |-> S, ret |-> LLIST_NULL_ERR]
    ELSE IF S.len = 0 \/ i > S.len THEN llist_add(S, lp, d, n, m)
    ELSE LET new == lnode_new(S, d, n, m) IN
         IF new.node = NULL THEN [S |-> new.S, ret |-> LLIST_ALLOC_ERR]
         ELSE IF i = 0
         THEN [S |-> ins_head(new.S, new.node), ret |-> LLIST_OK]
         ELSE [S |-> ins_mid(new.S, lp, new.node, i), ret |-> LLIST_OK]

llist_ins(S, lp, d, n, i, m) ==
    IF lp = NULL \/ d = NULL \/ n = 0 THEN [S |-> S, ret |-> LLIST_NULL_ERR]
    ELSE IF S.len = 0 \/ i >= S.len THEN llist_add(S, lp, d, n, m)
    ELSE LET new == lnode_new(S, d, n, m) IN
         IF new.node = NULL THEN [S |-> new.S, ret |-> LLIST_ALLOC_ERR]
         ELSE IF i = 0
         THEN [S |-> ins_head(new.S, new.node), ret |-> LLIST_OK]
         ELSE [S |-> ins_mid(new.S, lp, new.node, i), ret |-> LLIST_OK]

\* del_final forgetting l->tail = NULL.
del_final_keeps_tail(S) == [S EXCEPT !.head = NULL]

\* Lines 133-134 of llist_del: the final element goes, the list is empty.
del_final(S) == [S EXCEPT !.head = NULL, !.tail = NULL]

\* del_head forgetting l->head = l->head->next.
del_head_keeps_head(S) ==
    IF ~Live(S, S.head) THEN Fault(S)
    ELSE [S EXCEPT !.nodes[S.head].prev = NULL]

\* Lines 136-137 of llist_del: the first element goes, update the head.
del_head(S) ==
    IF ~Live(S, S.head) THEN Fault(S)
    ELSE LET S1 == [S EXCEPT !.head = S.nodes[S.head].next] IN
         IF ~Live(S1, S1.head) THEN Fault(S1)
         ELSE [S1 EXCEPT !.nodes[S1.head].prev = NULL]

\* del_tail forgetting l->tail->next = NULL.
del_tail_keeps_next(S) ==
    IF ~Live(S, S.tail) THEN Fault(S)
    ELSE [S EXCEPT !.tail = S.nodes[S.tail].prev]

\* Lines 139-140 of llist_del: the last element goes, update the tail.
del_tail(S) ==
    IF ~Live(S, S.tail) THEN Fault(S)
    ELSE LET S1 == [S EXCEPT !.tail = S.nodes[S.tail].prev] IN
         IF ~Live(S1, S1.tail) THEN Fault(S1)
         ELSE [S1 EXCEPT !.nodes[S1.tail].next = NULL]

\* del_mid forgetting node->prev->next = node->next.
del_mid_no_forward_link(S, node) ==
    LET p == S.nodes[node].prev
        x == S.nodes[node].next
    IN IF ~Live(S, x) THEN Fault(S)
       ELSE [S EXCEPT !.nodes[x].prev = p]

\* Lines 142-143 of llist_del: a middle element goes, relink its neighbours.
del_mid(S, node) ==
    LET p == S.nodes[node].prev
        x == S.nodes[node].next
    IN IF ~Live(S, p) THEN Fault(S)
       ELSE LET S1 == [S EXCEPT !.nodes[p].next = x] IN
            IF ~Live(S1, x) THEN Fault(S1)
            ELSE [S1 EXCEPT !.nodes[x].prev = p]

llist_del(S, lp, i) ==
    LET node == lnode_get(S, lp, i) IN
    IF node = NULL THEN lnode_free(S, node)
    ELSE IF ~Live(S, node) THEN [S |-> Fault(S), ret |-> NULL]
    ELSE LET S1 == IF S.len = 1 THEN del_final(S)
                   ELSE IF i = 0 THEN del_head(S)
                   ELSE IF i >= S.len - 1 THEN del_tail(S)
                   ELSE del_mid(S, node)
         IN IF S1.fault THEN [S |-> S1, ret |-> NULL]
            ELSE lnode_free([S1 EXCEPT !.len = @ - 1], node)

\* The loop of llist_clear, lines 157-161.
RECURSIVE clear_loop(_, _)
clear_loop(S, current) ==
    IF current = NULL \/ S.fault THEN S
    ELSE IF ~Live(S, current) THEN Fault(S)
    ELSE clear_loop(lnode_free_whole(S, current), S.nodes[current].next)

\* llist_clear forgetting l->len = 0.
llist_clear_keeps_len(S, lp) ==
    IF llist_empty(S, lp) THEN S
    ELSE LET S1 == clear_loop(S, S.head) IN
         [S1 EXCEPT !.head = NULL, !.tail = NULL]

llist_clear(S, lp) ==
    IF llist_empty(S, lp) THEN S
    ELSE LET S1 == clear_loop(S, S.head) IN
         [S1 EXCEPT !.len = 0, !.head = NULL, !.tail = NULL]

\* ------------------------------------------------------------ the program
Store(S) ==
    /\ head' = S.head
    /\ tail' = S.tail
    /\ len' = S.len
    /\ nodes' = S.nodes
    /\ bufs' = S.bufs
    /\ fault' = S.fault

NoHist == [ok |-> FALSE, elems |-> <<>>]

\* A declared, not yet initialised struct holds arbitrary values.
Init ==
    /\ head \in Ptr
    /\ tail \in Ptr
    /\ len \in 0..MaxAlloc
    /\ nodes = [a \in Addr |-> NoNode]
    /\ bufs = [a \in Addr |-> NoBuf]
    /\ inited = FALSE
    /\ fault = FALSE
    /\ hist = NoHist

Call_llist_init(lp) ==
    /\ ~fault
    /\ Store(llist_init(Cur, lp).S)
    /\ inited' = (inited \/ lp # NULL)
    /\ hist' = IF lp = NULL THEN hist
               ELSE IF inited THEN NoHist
               ELSE [ok |-> TRUE, elems |-> <<>>]

Call_llist_get(lp, i) ==
    /\ ~fault /\ inited
    /\ Store(llist_get(Cur, lp, i).S)
    /\ UNCHANGED <<inited, hist>>

Call_llist_add(lp, d, n, m) ==
    /\ ~fault /\ inited
    /\ LET r == llist_add(Cur, lp, d, n, m) IN
       /\ Store(r.S)
       /\ hist' = IF hist.ok /\ r.ret = LLIST_OK
                  THEN [hist EXCEPT !.elems = Append(@, SubSeq(CallerMem[d], 1, n))]
                  ELSE hist
    /\ UNCHANGED inited

Call_llist_ins(lp, d, n, i, m) ==
    /\ ~fault /\ inited
    /\ Store(llist_ins(Cur, lp, d, n, i, m).S)
    /\ hist' = NoHist
    /\ UNCHANGED inited

Call_llist_del(lp, i) ==
    /\ ~fault /\ inited
    /\ Store(llist_del(Cur, lp, i).S)
    /\ hist' = NoHist
    /\ UNCHANGED inited

Call_llist_clear(lp) ==
    /\ ~fault /\ inited
    /\ Store(llist_clear(Cur, lp))
    /\ hist' = NoHist
    /\ UNCHANGED inited

\* The caller's arguments: the handle and the data pointer may be absent,
\* the length is at most the size of the caller's buffer.
Handle == {NULL, LP}
DataArgs ==
    {<<NULL, 1>>} \cup
    UNION {{<<d, n>> : n \in 0..Len(CallerMem[d])} : d \in DOMAIN CallerMem}
\* The handle and data arguments llist_add and llist_ins accept, and those
\* they reject before looking at anything else.
Accepted == {c \in Handle \X DataArgs : c[1] # NULL /\ c[2][1] # NULL /\ c[2][2] # 0}
Rejected == (Handle \X DataArgs) \ Accepted
\* The calls made.  A rejected call reads neither the index nor the heap, and
\* a call with an absent handle does not read the index, so one value of the
\* arguments it ignores stands for all of them.
GetCalls == ({LP} \X Index) \cup {<<NULL, 0>>}
AddCalls == (Accepted \X MallocOutcome) \cup (Rejected \X {"ok"})
InsCalls == (Accepted \X Index \X MallocOutcome) \cup (Rejected \X {0} \X {"ok"})

Next ==
    \/ \E lp \in Handle : Call_llist_init(lp)
    \/ \E c \in GetCalls : Call_llist_get(c[1], c[2])
    \/ \E c \in AddCalls : Call_llist_add(c[1][1], c[1][2][1], c[1][2][2], c[2])
    \/ \E c \in InsCalls :
          Call_llist_ins(c[1][1], c[1][2][1], c[1][2][2], c[2], c[3])
    \/ \E c \in GetCalls : Call_llist_del(c[1], c[2])
    \/ \E lp \in Handle : Call_llist_clear(lp)

Spec == Init /\ [][Next]_vars

\* The same program when llist_init is called once, on the fresh struct, and
\* never again on a list in use.
NextOps ==
    \/ \E lp \in Handle : ~inited /\ Call_llist_init(lp)
    \/ \E c \in GetCalls : Call_llist_get(c[1], c[2])
    \/ \E c \in AddCalls : Call_llist_add(c[1][1], c[1][2][1], c[1][2][2], c[2])
    \/ \E c \in InsCalls :
          Call_llist_ins(c[1][1], c[1][2][1], c[1][2][2], c[2], c[3])
    \/ \E c \in GetCalls : Call_llist_del(c[1], c[2])
    \/ \E lp \in Handle : Call_llist_clear(lp)

SpecOps == Init /\ [][NextOps]_vars

\* ------------------------------------------------------------ observation
\* The nodes met walking next from p, at most fuel of them; FAULT marks a
\* link to no live node.
RECURSIVE ChainNext(_, _, _)
ChainNext(S, p, fuel) ==
    IF p = NULL \/ fuel = 0 THEN <<>>
    ELSE IF ~Live(S, p) THEN <<FAULT>>
    ELSE <<p>> \o ChainNext(S, S.nodes[p].next, fuel - 1)

RECURSIVE ChainPrev(_, _, _)
ChainPrev(S, p, fuel) ==
    IF p = NULL \/ fuel = 0 THEN <<>>
    ELSE IF ~Live(S, p) THEN <<FAULT>>
    ELSE <<p>> \o ChainPrev(S, S.nodes[p].prev, fuel - 1)

NextWalk(S) == ChainNext(S, S.head, MaxAlloc + 1)
PrevWalk(S) == ChainPrev(S, S.tail, MaxAlloc + 1)
Reverse(w) == [k \in 1..Len(w) |-> w[Len(w) + 1 - k]]
Range(w) == {w[k] : k \in 1..Len(w)}

\* The number of nodes visited walking next from head until tail is reached
\* (FAULT when the walk leaves the live nodes before it meets tail).
RECURSIVE StepsToTail(_, _, _)
StepsToTail(S, p, fuel) ==
    IF fuel = 0 \/ ~Live(S, p) THEN FAULT
    ELSE IF p = S.tail THEN 1
    ELSE LET r == StepsToTail(S, S.nodes[p].next, fuel - 1) IN
         IF r = FAULT THEN FAULT ELSE r + 1

WalkCount(S) ==
    IF S.head = NULL THEN 0 ELSE StepsToTail(S, S.head, MaxAlloc + 1)

LiveNodes(S) == {a \in Addr : S.nodes[a].st = "live"}
\* Nodes llist_del freed: the node is gone, its payload is the caller's.
Deleted(S) == {a \in Addr : S.nodes[a].st = "freed" /\ S.bufs[a].st = "live"}

\* ------------------------------------------------------------ properties
\* C1: when llist_init ran once and only llist_add, llist_ins, llist_del and
\* llist_clear (and llist_get) follow, len equals the number of nodes visited
\* walking next from head until tail, and equals the number of nodes
\* allocated and not yet freed.
C1_CountIsChainLength ==
    inited => /\ ~fault
              /\ len = WalkCount(Cur)
              /\ len = Cardinality(LiveNodes(Cur))

\* A list of two nodes left after an insert before the head and a delete.
C1_Witness ==
    /\ inited /\ len = 2 /\ Deleted(Cur) # {}
    /\ head > tail

\* C2: len = 0, head = NULL and tail = NULL are all true or all false.
C2_EmptyIffNoEnds ==
    inited => /\ (len = 0) <=> (head = NULL)
              /\ (head = NULL) <=> (tail = NULL)

\* A list emptied by llist_del of its final element.
C2_Witness ==
    /\ inited /\ len = 0 /\ head = NULL /\ tail = NULL
    /\ Deleted(Cur) # {} /\ LiveNodes(Cur) = {}

\* C3 as stated: len = 1 holds if and only if head = tail, and then the
\* single node has prev and next NULL.
C3_Original ==
    inited => /\ (len = 1) <=> (head = tail)
              /\ (len = 1 /\ head # NULL) =>
                    (nodes[head].prev = NULL /\ nodes[head].next = NULL)

\* C3: len = 1 holds if and only if head = tail and head is a node (an empty
\* list has head = tail = NULL with len = 0), and then the single node has
\* prev and next NULL.
C3_SingleIffSameEnds ==
    inited => /\ (len = 1) <=> (head = tail /\ head # NULL)
              /\ len = 1 => /\ Live(Cur, head)
                            /\ nodes[head].prev = NULL
                            /\ nodes[head].next = NULL

\* A single node left after llist_del took another one away.
C3_Witness ==
    /\ inited /\ len = 1 /\ head = tail /\ head # NULL
    /\ Deleted(Cur) # {}

\* C4: the chain is acyclic and consistent in both directions: head.prev
\* and tail.next are NULL, n.next = m implies m.prev = n, n.prev = p implies
\* p.next = n, and the prev-walk from tail is the next-walk from head
\* reversed.
C4_ChainConsistent ==
    inited =>
      LET w == NextWalk(Cur) IN
      /\ FAULT \notin Range(w)
      /\ Cardinality(Range(w)) = Len(w)
      /\ Len(w) <= MaxAlloc
      /\ head # NULL => nodes[head].prev = NULL
      /\ tail # NULL => nodes[tail].next = NULL
      /\ \A a \in Range(w) \cap Addr :
            /\ nodes[a].next # NULL =>
                  /\ Live(Cur, nodes[a].next)
                  /\ nodes[nodes[a].next].prev = a
            /\ nodes[a].prev # NULL =>
                  /\ Live(Cur, nodes[a].prev)
                  /\ nodes[nodes[a].prev].next = a
      /\ PrevWalk(Cur) = Reverse(w)

\* Three nodes, the middle one spliced in by llist_ins, after an llist_del.
C4_Witness ==
    /\ inited /\ len = 3 /\ Deleted(Cur) # {}
    /\ LET w == NextWalk(Cur) IN
       Len(w) = 3 /\ w[2] > w[3] /\ w[2] > w[1]

\* The pointer llist_get returns for index i (FAULT when the call ran into
\* undefined behaviour), and the bytes a payload pointer points to (none
\* when it points to no allocated payload).
GetPtr(S, i) ==
    LET r == llist_get(S, LP, i) IN IF r.S.fault THEN FAULT ELSE r.ret
Payload(S, p) ==
    IF p \in Addr /\ S.bufs[p].st = "live" THEN S.bufs[p].bytes ELSE <<>>
GetBytes(S, i) == Payload(S, GetPtr(S, i))
\* The first n bytes of the caller's buffer d.
Copied(d, n) == SubSeq(CallerMem[d], 1, n)
\* w without its k-th entry.
Without(w, k) == SubSeq(w, 1, k - 1) \o SubSeq(w, k + 1, Len(w))

\* C5: after successful llist_add calls only, llist_get(i) returns the bytes
\* of the i-th element added, for every i < len; and every successful
\* llist_add increments len by 1, makes the new element the tail, found at
\* index len, and leaves every earlier element at its index.
C5_AddAppends ==
    /\ hist.ok =>
          /\ len = Len(hist.elems)
          /\ \A i \in 0..(len - 1) : GetBytes(Cur, i) = hist.elems[i + 1]
    /\ inited =>
          \A a \in DataArgs, m \in MallocOutcome :
             LET r == llist_add(Cur, LP, a[1], a[2], m) IN
             r.ret = LLIST_OK =>
                /\ ~r.S.fault
                /\ r.S.len = len + 1
                /\ Live(r.S, r.S.tail)
                /\ r.S.tail \notin LiveNodes(Cur)
                /\ GetPtr(r.S, len) = r.S.nodes[r.S.tail].data
                /\ GetBytes(r.S, len) = Copied(a[1], a[2])
                /\ \A j \in 0..(len - 1) :
                      /\ GetPtr(r.S, j) = GetPtr(Cur, j)
                      /\ GetBytes(r.S, j) = GetBytes(Cur, j)

\* Three elements added in a row, of two, one and two bytes.
C5_Witness ==
    /\ hist.ok /\ len = 3
    /\ hist.elems = <<Copied(1, 2), Copied(1, 1), Copied(1, 2)>>

\* C6: on a non-empty list a successful llist_ins at i < len puts the new
\* element at index i, leaves the elements before i, moves those at j >= i to
\* j + 1 and increments len by 1; at i = 0 the new element is the head.
C6_InsertShifts ==
    inited =>
      \A i \in 0..(len - 1), a \in DataArgs, m \in MallocOutcome :
         LET r == llist_ins(Cur, LP, a[1], a[2], i, m) IN
         r.ret = LLIST_OK =>
            /\ ~r.S.fault
            /\ r.S.len = len + 1
            /\ GetPtr(r.S, i) \in Addr
            /\ \A j \in 0..(len - 1) : GetPtr(r.S, i) # GetPtr(Cur, j)
            /\ GetBytes(r.S, i) = Copied(a[1], a[2])
            /\ \A j \in 0..(i - 1) :
                  /\ GetPtr(r.S, j) = GetPtr(Cur, j)
                  /\ GetBytes(r.S, j) = GetBytes(Cur, j)
            /\ \A j \in i..(len - 1) :
                  /\ GetPtr(r.S, j + 1) = GetPtr(Cur, j)
                  /\ GetBytes(r.S, j + 1) = GetBytes(Cur, j)
            /\ i = 0 => /\ Live(r.S, r.S.head)
                        /\ r.S.nodes[r.S.head].data = GetPtr(r.S, 0)
                        /\ GetPtr(r.S, 1) = GetPtr(Cur, 0)

\* Four nodes: the last allocated was inserted at index 2, an earlier one
\* before the head.
C6_Witness ==
    /\ inited /\ len = 4
    /\ LET w == NextWalk(Cur) IN
       Len(w) = 4 /\ w[3] = 4 /\ w[1] > w[2]

\* C7: for every list, empty or not, and every index i >= len, llist_ins
\* yields the state and the return value llist_add yields; on success the
\* new element is the tail and every old element keeps its index.
C7_InsertPastEndIsAdd ==
    inited =>
      \A c \in AddCalls, i \in {j \in Index : j >= len} :
         LET lp == c[1][1]
             d == c[1][2][1]
             n == c[1][2][2]
             r == llist_ins(Cur, lp, d, n, i, c[2])
         IN /\ r = llist_add(Cur, lp, d, n, c[2])
            /\ r.ret = LLIST_OK =>
                  /\ ~r.S.fault
                  /\ r.S.len = len + 1
                  /\ r.S.tail \notin LiveNodes(Cur)
                  /\ GetPtr(r.S, len) = r.S.nodes[r.S.tail].data
                  /\ \A j \in 0..(len - 1) : GetPtr(r.S, j) = GetPtr(Cur, j)

\* A list of one element on which llist_ins at an index past the length
\* succeeds and appends, as in the scenario add X, insert Y at 5.
C7_Witness ==
    /\ inited /\ len = 1
    /\ \E i \in Index :
          /\ i > len
          /\ LET r == llist_ins(Cur, LP, 1, 1, i, "ok") IN
             /\ r.ret = LLIST_OK
             /\ GetBytes(r.S, 1) = Copied(1, 1)
             /\ GetPtr(r.S, 0) = GetPtr(Cur, 0)

\* C8: on a non-empty list llist_del at i < len returns the payload
\* llist_get(i) returned, still allocated, decrements len by 1, leaves the
\* elements before i and moves those after i one index down; the chain is
\* the old chain without its i-th node, in both directions.
C8_DeleteShifts ==
    inited =>
      \A i \in 0..(len - 1) :
         LET r == llist_del(Cur, LP, i) IN
         /\ ~r.S.fault
         /\ r.ret \in Addr
         /\ r.ret = GetPtr(Cur, i)
         /\ Payload(r.S, r.ret) = GetBytes(Cur, i)
         /\ Payload(r.S, r.ret) # <<>>
         /\ r.S.len = len - 1
         /\ \A j \in 0..(i - 1) :
               /\ GetPtr(r.S, j) = GetPtr(Cur, j)
               /\ GetBytes(r.S, j) = GetBytes(Cur, j)
         /\ \A j \in (i + 1)..(len - 1) :
               /\ GetPtr(r.S, j - 1) = GetPtr(Cur, j)
               /\ GetBytes(r.S, j - 1) = GetBytes(Cur, j)
         /\ NextWalk(r.S) = Without(NextWalk(Cur), i + 1)
         /\ PrevWalk(r.S) = Reverse(NextWalk(r.S))
         /\ r.S.head = (IF len = 1 THEN NULL ELSE NextWalk(r.S)[1])
         /\ r.S.tail = (IF len = 1 THEN NULL ELSE NextWalk(r.S)[len - 1])

\* The scenario add A, B, C then del(0): A's node is freed, its payload is
\* still allocated, B and C remain in order.
C8_Witness ==
    /\ inited /\ len = 2
    /\ Deleted(Cur) = {1}
    /\ NextWalk(Cur) = <<2, 3>>
    /\ GetPtr(Cur, 0) = 2

\* Whether llist_del at i removes and returns the tail element of S.
DelTakesTail(S, i) ==
    LET r == llist_del(S, LP, i) IN
    /\ ~r.S.fault
    /\ r.S.len = S.len - 1
    /\ Live(S, S.tail)
    /\ r.ret = S.nodes[S.tail].data
    /\ r.ret \in Addr
    /\ Payload(r.S, r.ret) = Payload(S, r.ret)
    /\ Payload(r.S, r.ret) # <<>>
    /\ r.S.nodes[S.tail].st = "freed"
    /\ NextWalk(r.S) = SubSeq(NextWalk(S), 1, S.len - 1)

\* C9 as stated: llist_del at any index >= len removes and returns the
\* former tail element and len decreases by exactly 1.
C9_Original ==
    inited => \A i \in Index : i >= len => DelTakesTail(Cur, i)

\* C9: on a non-empty list, llist_del at any index >= len removes and
\* returns the former tail element and len decreases by exactly 1.
C9_DeletePastEndTakesTail ==
    (inited /\ len > 0) => \A i \in Index : i >= len => DelTakesTail(Cur, i)

\* A list of two elements, with room for an index past its length, on which
\* llist_del past the end returns the payload of the tail.
C9_Witness ==
    /\ inited /\ len = 2
    /\ \E i \in Index :
          /\ i > len
          /\ llist_del(Cur, LP, i).ret = nodes[tail].data
          /\ llist_del(Cur, LP, i).S.len = 1

\* C10: llist_del on an empty list, or with an absent list handle, returns
\* NULL for every index and changes nothing: an empty list stays with
\* len = 0 and head and tail NULL.
C10_DeleteOnEmpty ==
    inited =>
      \A i \in Index :
         /\ llist_del(Cur, NULL, i) = [S |-> Cur, ret |-> NULL]
         /\ len = 0 =>
               /\ llist_del(Cur, LP, i) = [S |-> Cur, ret |-> NULL]
               /\ head = NULL /\ tail = NULL

\* A list emptied by deleting its elements, on which llist_del returns NULL.
C10_Witness ==
    /\ inited /\ len = 0
    /\ Cardinality(Deleted(Cur)) = 2
    /\ llist_del(Cur, LP, 0).ret = NULL
    /\ llist_del(Cur, LP, 0).S.len = 0

\* The smaller of two numbers.
Min(a, b) == IF a <= b THEN a ELSE b

\* C11: llist_get changes nothing (struct, links, payloads), for every handle
\* and index; it returns the payload of the element at index i when i < len,
\* of the last element when i >= len on a non-empty list, and NULL when the
\* list is empty or the handle is absent.
C11_GetIsPure ==
    inited =>
      \A lp \in Handle, i \in Index :
         LET r == llist_get(Cur, lp, i) IN
         /\ r.S = Cur
         /\ (lp = NULL \/ len = 0) => r.ret = NULL
         /\ (lp # NULL /\ len > 0) =>
               /\ r.ret = nodes[NextWalk(Cur)[Min(i, len - 1) + 1]].data
               /\ Payload(Cur, r.ret) # <<>>
               /\ i >= len => r.ret = nodes[tail].data

\* A list of three elements of which llist_get returns the second at index
\* 1 and the last at an index past the end.
C11_Witness ==
    /\ inited /\ len = 3 /\ Len(NextWalk(Cur)) = 3
    /\ llist_get(Cur, LP, 1) = [S |-> Cur, ret |-> nodes[NextWalk(Cur)[2]].data]
    /\ llist_get(Cur, LP, MaxAlloc) = [S |-> Cur, ret |-> nodes[tail].data]
    /\ nodes[tail].data # nodes[NextWalk(Cur)[2]].data

\* Nodes that llist_clear released together with their payload.
Cleared(S) == {a \in Addr : S.nodes[a].st = "freed" /\ S.bufs[a].st = "freed"}

\* C12: after llist_clear the count is 0, head and tail are NULL and
\* llist_get at index 0 returns NULL; a second llist_clear, a llist_clear of
\* an already empty list and a llist_clear of a NULL handle change nothing
\* and free nothing.
C12_ClearEmptiesOnce ==
    inited =>
      LET c == llist_clear(Cur, LP) IN
      /\ ~c.fault
      /\ c.len = 0 /\ c.head = NULL /\ c.tail = NULL
      /\ llist_get(c, LP, 0) = [S |-> c, ret |-> NULL]
      /\ llist_clear(c, LP) = c
      /\ len = 0 => c = Cur
      /\ llist_clear(Cur, NULL) = Cur
      /\ llist_clear(c, NULL) = c

\* An emptied list from which llist_clear released two elements, and a
\* further llist_clear of it leaves it as it is.
C12_Witness ==
    /\ inited /\ len = 0 /\ head = NULL /\ tail = NULL
    /\ Cardinality(Cleared(Cur)) >= 2
    /\ llist_clear(Cur, LP) = Cur

\* C13: llist_add and llist_ins with a NULL handle, a NULL data pointer or
\* length 0, and llist_init with a NULL handle, return LLIST_NULL_ERR and
\* leave head, tail, count, every link and payload as they were, allocating
\* no node, whatever else is passed and whatever malloc would do.
C13_NullInputRejected ==
    /\ llist_init(Cur, NULL) = [S |-> Cur, ret |-> LLIST_NULL_ERR]
    /\ \A c \in Rejected, m \in MallocOutcome :
          /\ llist_add(Cur, c[1], c[2][1], c[2][2], m)
                = [S |-> Cur, ret |-> LLIST_NULL_ERR]
          /\ \A i \in Index :
                llist_ins(Cur, c[1], c[2][1], c[2][2], i, m)
                   = [S |-> Cur, ret |-> LLIST_NULL_ERR]

\* A list of two elements, with room for a third, on which a llist_add of
\* length 0, a llist_ins of a NULL data pointer at index 1 and a llist_init
\* of a NULL handle are rejected and change nothing.
C13_Witness ==
    /\ inited /\ len = 2 /\ FreshAddr(Cur) \in Addr
    /\ llist_add(Cur, LP, 1, 0, "ok") = [S |-> Cur, ret |-> LLIST_NULL_ERR]
    /\ llist_ins(Cur, LP, NULL, 1, 1, "ok") = [S |-> Cur, ret |-> LLIST_NULL_ERR]
    /\ llist_init(Cur, NULL) = [S |-> Cur, ret |-> LLIST_NULL_ERR]

\* C14: when malloc fails for the node or for its payload, llist_add and
\* llist_ins (at every index, those handed to llist_add included) return
\* LLIST_ALLOC_ERR; then head, tail, count and every link are as before, no
\* node is linked in, and the node allocated before the payload's malloc
\* failed is released, so the heap holds no node it did not hold before.
C14_AllocFailureLeavesList ==
    inited =>
      \A c \in Accepted, m \in MallocOutcome :
         LET a == llist_add(Cur, c[1], c[2][1], c[2][2], m) IN
         /\ (m # "ok" \/ FreshAddr(Cur) \notin Addr) <=> a.ret = LLIST_ALLOC_ERR
         /\ a.ret = LLIST_ALLOC_ERR =>
               /\ a.S = Cur
               /\ LiveNodes(a.S) = LiveNodes(Cur)
               /\ NextWalk(a.S) = NextWalk(Cur)
         /\ \A i \in Index :
               LET r == llist_ins(Cur, c[1], c[2][1], c[2][2], i, m) IN
               /\ (m # "ok" \/ FreshAddr(Cur) \notin Addr)
                     <=> r.ret = LLIST_ALLOC_ERR
               /\ r.ret = LLIST_ALLOC_ERR =>
                     /\ r.S = Cur
                     /\ LiveNodes(r.S) = LiveNodes(Cur)
                     /\ NextWalk(r.S) = NextWalk(Cur)

\* A list of two elements, with memory left, on which llist_add fails on the
\* payload's malloc, llist_ins in the middle fails on the payload's malloc,
\* llist_ins at the head fails on the node's malloc, and llist_ins past the
\* end (handed to llist_add) fails on the payload's malloc.
C14_Witness ==
    /\ inited /\ len = 2 /\ FreshAddr(Cur) \in Addr
    /\ llist_add(Cur, LP, 1, 2, "nodata") = [S |-> Cur, ret |-> LLIST_ALLOC_ERR]
    /\ llist_ins(Cur, LP, 1, 2, 1, "nodata") = [S |-> Cur, ret |-> LLIST_ALLOC_ERR]
    /\ llist_ins(Cur, LP, 1, 1, 0, "nonode") = [S |-> Cur, ret |-> LLIST_ALLOC_ERR]
    /\ llist_ins(Cur, LP, 1, 2, 3, "nodata") = [S |-> Cur, ret |-> LLIST_ALLOC_ERR]

\* C15: llist_init with a present handle returns LLIST_OK and leaves head
\* NULL, tail NULL and count 0 whatever the struct held before (a list in
\* use or the garbage of an uninitialised struct), and a second llist_init
\* gives the same state as the first.
C15_InitOverwrites ==
    LET r == llist_init(Cur, LP) IN
    /\ r.ret = LLIST_OK
    /\ r.S.head = NULL /\ r.S.tail = NULL /\ r.S.len = 0
    /\ ~r.S.fault
    /\ llist_init(r.S, LP) = r

\* An uninitialised struct holding garbage in all three fields, which
\* llist_init overwrites.
C15_Witness ==
    /\ ~inited /\ head # NULL /\ tail # NULL /\ head # tail /\ len > 0
    /\ llist_init(Cur, LP).ret = LLIST_OK
    /\ llist_init(Cur, LP).S # Cur
    /\ llist_init(Cur, LP).S.tail = NULL

\* Payloads that are allocated and not freed.
LiveBufs(S) == {a \in Addr : S.bufs[a].st = "live"}

\* C16: across llist_add, llist_ins, llist_del and llist_clear on a list
\* initialised once, no node is freed twice or read after it was freed, and
\* the nodes allocated and not freed are the nodes of the list, each linked
\* once, each with its payload allocated.  llist_del frees the node alone
\* and returns its payload still allocated; llist_clear frees every node
\* and its payload, after which the only payloads allocated are the ones
\* llist_del returned.
C16_Ownership ==
    inited =>
      /\ ~fault
      /\ LiveNodes(Cur) = Range(NextWalk(Cur))
      /\ Len(NextWalk(Cur)) = Cardinality(LiveNodes(Cur))
      /\ LiveBufs(Cur) = LiveNodes(Cur) \cup Deleted(Cur)
      /\ \A a \in Addr : nodes[a].st = "unalloc" => bufs[a].st = "unalloc"
      /\ \A a \in LiveNodes(Cur) : nodes[a].data = a
      /\ \A i \in Index :
            LET r == llist_del(Cur, LP, i) IN
            /\ ~r.S.fault
            /\ r.S.bufs = bufs
            /\ len > 0 =>
                  \E n \in LiveNodes(Cur) :
                     /\ r.ret = nodes[n].data
                     /\ r.ret \in LiveBufs(r.S)
                     /\ LiveNodes(r.S) = LiveNodes(Cur) \ {n}
                     /\ Deleted(r.S) = Deleted(Cur) \cup {n}
                     /\ Cleared(r.S) = Cleared(Cur)
      /\ LET c == llist_clear(Cur, LP) IN
         /\ ~c.fault
         /\ LiveNodes(c) = {}
         /\ LiveBufs(c) = Deleted(Cur)
         /\ Cleared(c) = Cleared(Cur) \cup LiveNodes(Cur)

\* A list of two elements after an earlier llist_del and an earlier
\* llist_clear: one payload is with the caller, one node and payload were
\* released, and a llist_clear now would release both elements.
C16_Witness ==
    /\ inited /\ len = 2
    /\ Deleted(Cur) # {} /\ Cleared(Cur) # {}
    /\ Cardinality(Cleared(llist_clear(Cur, LP))) = Cardinality(Cleared(Cur)) + 2
    /\ LiveBufs(llist_del(Cur, LP, 0).S) = LiveBufs(Cur)

\* C17: on a list of len > 0 elements lnode_get at any index i returns the
\* node at position min(i, len - 1) of the next-walk from head.  It walks
\* from the tail exactly when that position is in the upper half
\* (>= len / 2, rounded down) and from the head otherwise, and the walk from
\* the tail and the walk from the head arrive at the same node.
C17_IndexResolution ==
    (inited /\ len > 0) =>
      \A i \in Index :
         LET ci == Min(i, len - 1)
             fwd == WalkNext(Cur, head, ci)
             bwd == WalkPrev(Cur, tail, len - ci - 1)
         IN /\ lnode_get_index(Cur, i) = ci
            /\ lnode_get(Cur, LP, i) = NextWalk(Cur)[ci + 1]
            /\ lnode_get(Cur, LP, i) = fwd
            /\ bwd = fwd
            /\ lnode_get_backward(Cur, lnode_get_index(Cur, i))
                  <=> 2 * ci + 1 >= len
            /\ lnode_get_steps(Cur, lnode_get_index(Cur, i))
                  = IF 2 * ci + 1 >= len THEN len - ci - 1 ELSE ci

\* A list of four elements, where index 1 is reached by one step from the
\* head, index 2 by one step from the tail, and an index past the end is
\* the tail itself.
C17_Witness ==
    /\ inited /\ len = 4 /\ Len(NextWalk(Cur)) = 4
    /\ ~lnode_get_backward(Cur, 1) /\ lnode_get_steps(Cur, 1) = 1
    /\ lnode_get(Cur, LP, 1) = NextWalk(Cur)[2]
    /\ lnode_get_backward(Cur, 2) /\ lnode_get_steps(Cur, 2) = 1
    /\ lnode_get(Cur, LP, 2) = NextWalk(Cur)[3]
    /\ lnode_get(Cur, LP, MaxAlloc) = tail

\* C18: on every list reachable from llist_init no operation follows a link
\* of a node that is absent.  In llist_ins at 0 < i < len the node found by
\* lnode_get(i - 1) and its next are present; in llist_del with len > 1 the
\* new head (head's next) and the new tail (tail's prev) are present, and
\* for a middle delete both neighbours of the node are; every step of the
\* walk of lnode_get lands on a present node.
C18_NoAbsentLinkFollowed ==
    inited =>
      /\ ~fault
      /\ ~llist_clear(Cur, LP).fault
      /\ \A i \in Index :
            /\ ~llist_get(Cur, LP, i).S.fault
            /\ ~llist_del(Cur, LP, i).S.fault
            /\ \A m \in MallocOutcome : ~llist_ins(Cur, LP, 1, 1, i, m).S.fault
            /\ len > 0 =>
                  LET ci == lnode_get_index(Cur, i) IN
                  \A k \in 0..lnode_get_steps(Cur, ci) :
                     IF lnode_get_backward(Cur, ci)
                     THEN Live(Cur, WalkPrev(Cur, tail, k))
                     ELSE Live(Cur, WalkNext(Cur, head, k))
      /\ \A i \in 1..(len - 1) :
            LET bef == lnode_get(Cur, LP, i - 1) IN
            Live(Cur, bef) /\ Live(Cur, nodes[bef].next)
      /\ len > 1 => /\ Live(Cur, head) /\ Live(Cur, nodes[head].next)
                    /\ Live(Cur, tail) /\ Live(Cur, nodes[tail].prev)
      /\ \A i \in 1..(len - 2) :
            LET node == lnode_get(Cur, LP, i) IN
            /\ Live(Cur, node)
            /\ Live(Cur, nodes[node].prev) /\ Live(Cur, nodes[node].next)

\* A list of three elements with memory left: llist_ins at index 1 finds
\* its predecessor and successor and links the new node, llist_del at index
\* 1 relinks both neighbours, and neither faults.
C18_Witness ==
    /\ inited /\ len = 3 /\ FreshAddr(Cur) \in Addr
    /\ llist_ins(Cur, LP, 1, 1, 1, "ok").ret = LLIST_OK
    /\ llist_ins(Cur, LP, 1, 1, 1, "ok").S.len = 4
    /\ ~llist_ins(Cur, LP, 1, 1, 1, "ok").S.fault
    /\ llist_del(Cur, LP, 1).S.len = 2
    /\ ~llist_del(Cur, LP, 1).S.fault
    /\ Live(Cur, nodes[lnode_get(Cur, LP, 1)].prev)
    /\ Live(Cur, nodes[lnode_get(Cur, LP, 1)].next)

\* C19: every operation ends: the loop of lnode_get, the only loop of
\* llist_get, llist_del and llist_ins, follows at most len / 2 (rounded
\* down) links for every len >= 1 and every index, clamped or not, and the
\* loop of llist_clear meets NULL after exactly len nodes, freeing len nodes.
C19_BoundedWalks ==
    inited =>
      /\ len > 0 =>
            \A i \in Index :
               LET steps == lnode_get_steps(Cur, lnode_get_index(Cur, i)) IN
               /\ 0 <= steps /\ steps <= len \div 2
               /\ 2 * steps <= len
               /\ Live(Cur, lnode_get(Cur, LP, i))
      /\ Len(NextWalk(Cur)) = len
      /\ len > 0 => nodes[NextWalk(Cur)[len]].next = NULL
      /\ LET c == llist_clear(Cur, LP) IN
         /\ ~c.fault
         /\ Cardinality(LiveNodes(Cur) \ LiveNodes(c)) = len

\* A list of three elements: index 1 takes len / 2 = 1 link, an index past
\* the end takes none, and llist_clear frees three nodes.
C19_Witness ==
    /\ inited /\ len = 3
    /\ lnode_get_steps(Cur, lnode_get_index(Cur, 1)) = 1
    /\ lnode_get_steps(Cur, lnode_get_index(Cur, MaxAlloc)) = 0
    /\ Cardinality(LiveNodes(Cur) \ LiveNodes(llist_clear(Cur, LP))) = 3

\* Nodes allocated and not freed that the next-walk from head does not visit.
Leaked(S) == LiveNodes(S) \ Range(NextWalk(S))

\* C20: llist_init releases nothing.  Called on a list that holds nodes it
\* overwrites head, tail and count only: every node and payload stays
\* allocated, none is reachable from the list any more, and llist_clear,
\* right after or at any later time, does not free them.
C20_InitReleasesNothing ==
    inited =>
      /\ LET r == llist_init(Cur, LP)
             after == llist_clear(r.S, LP)
         IN /\ r.S.nodes = nodes /\ r.S.bufs = bufs
            /\ NextWalk(r.S) = <<>>
            /\ Leaked(r.S) = LiveNodes(Cur)
            /\ after.nodes = nodes /\ after.bufs = bufs
      /\ LET c == llist_clear(Cur, LP) IN
         /\ Leaked(c) = Leaked(Cur)
         /\ \A a \in Leaked(Cur) :
               /\ c.nodes[a] = nodes[a]
               /\ a \in LiveBufs(c)

\* An empty list right after llist_init ran on a list that held two nodes:
\* both are still allocated with their payloads, out of reach of the list,
\* and llist_clear frees neither.
C20_Witness ==
    /\ inited /\ len = 0 /\ head = NULL /\ tail = NULL
    /\ Cardinality(Leaked(Cur)) >= 2
    /\ Leaked(Cur) \subseteq LiveBufs(Cur)
    /\ llist_clear(Cur, LP) = Cur

====
